---- MODULE Spec2Model ----
(***************************************************************************)
(* Model of scripts/create_adversarial_dataset.py: the lookup-table        *)
(* extractor, the record filter, the attention perturbation (swap and      *)
(* add_attacks), the output replay (update_output) and the module-level    *)
(* pipeline that writes the three corpora.                                 *)
(*                                                                         *)
(* Representation.  A whitespace-separated field (input sequence, output   *)
(* sequence, attention) is the sequence of its tokens, i.e. the value of   *)
(* field.split(); " ".join(tokens) is the same sequence.  An attention     *)
(* token is a string of decimal digits and is modelled as the sequence of  *)
(* its digits, so that ''.join(...) and the character-level Levenshtein    *)
(* distance work on characters.  Words and table names are TLA+ strings.   *)
(* Python indices are 0-based, TLA+ sequences 1-based.                     *)
(***************************************************************************)
EXTENDS Integers, Sequences, FiniteSets, TLC

VARIABLES
    \* ---- the files and the module-level names (lines 171-201)
    train,                 \* lines of opt.train, each the list line.split()
    corpus,                \* lines of opt.heldout, each line.split("\t") with its fields split
    tables,                \* tables (line 171)
    heldout,               \* heldout / adversarial_heldout: one list, mutated in place
    swap_input,            \* opt.swap_input
    ignore_output_eos,     \* opt.ignore_output_eos
    no_eos_file,           \* <stem>_no_eos.tsv
    attacks_file,          \* <stem>_attacks.tsv
    attacks_outputs_file,  \* <stem>_attacks_outputs.tsv
    pc,                    \* position of the module-level script
    idx,                   \* loop index i of add_attacks / update_output (1-based)
    error,                 \* the unhandled exception that ended the run, or "none"
    \* ---- swap (lines 49-79)
    attention,             \* the list `attention`; `old_attention` is the same object
    entry,                 \* history: the list as it was when swap was called
    level,                 \* level / opt.level
    old_attention_string,  \* line 67
    i,                     \* loop variable of line 69 (number of swaps done)
    warned,                \* whether logging.warning of line 62 was issued
    spc                    \* position inside swap

vars == <<train, corpus, tables, heldout, swap_input, ignore_output_eos,
          no_eos_file, attacks_file, attacks_outputs_file, pc, idx, error,
          attention, entry, level, old_attention_string, i, warned, spc>>

pipelineVars == <<train, corpus, tables, heldout, swap_input, ignore_output_eos,
                  no_eos_file, attacks_file, attacks_outputs_file, pc, idx, error>>

\* ------------------------------------------------------------------ bounds
MaxLen == 3        \* longest slice handed to swap in SpecSwap
MaxLevel == 2      \* largest distortion level
MaxRecords == 2    \* longest heldout corpus in Spec
MaxAtt == 4        \* longest attention field in SpecAttack
MaxLines == 2      \* longest free part of the training file in SpecTables

\* a file that was never opened for writing
Absent == [written |-> FALSE, lines |-> <<>>]

\* ----------------------------------------------------------------- helpers
Min2(a, b) == IF a <= b THEN a ELSE b

\* ''.join(tokens): the characters of the tokens, in order
RECURSIVE Join(_)
Join(tokens) ==
    IF tokens = <<>> THEN <<>> ELSE Head(tokens) \o Join(Tail(tokens))

\* One row of the Levenshtein matrix: cur is the part of row `c` built so far.
RECURSIVE LevRow(_, _, _, _)
LevRow(c, t, prev, cur) ==
    IF Len(cur) = Len(t) + 1 THEN cur
    ELSE LET j == Len(cur)      \* column to fill, 1..Len(t)
             sub == prev[j] + (IF c = t[j] THEN 0 ELSE 1)
             del == prev[j + 1] + 1
             ins == cur[j] + 1
         IN LevRow(c, t, prev, Append(cur, Min2(sub, Min2(del, ins))))

RECURSIVE LevRows(_, _, _, _)
LevRows(s, t, r, prev) ==
    IF r > Len(s) THEN prev[Len(t) + 1]
    ELSE LevRows(s, t, r + 1, LevRow(s[r], t, prev, <<r>>))

\* Levenshtein.distance(s, t): unit-cost insert, delete, substitute
Distance(s, t) == LevRows(s, t, 1, [j \in 1..(Len(t) + 1) |-> j - 1])

\* int(token) for a token of decimal digits
RECURSIVE ToInt(_)
ToInt(tok) ==
    IF tok = <<>> THEN 0
    ELSE 10 * ToInt(SubSeq(tok, 1, Len(tok) - 1)) + tok[Len(tok)]

\* old_attention[j], old_attention[k] = old_attention[k], old_attention[j]
SwapAt(a, j, k) == [a EXCEPT ![j] = a[k], ![k] = a[j]]

\* Python slices of a list
AllButFirstLast(s) == IF Len(s) < 3 THEN <<>> ELSE SubSeq(s, 2, Len(s) - 1)  \* s[1:-1]
AllButLast(s) == IF Len(s) < 2 THEN <<>> ELSE SubSeq(s, 1, Len(s) - 1)       \* s[:-1]
FirstOf(s) == IF s = <<>> THEN <<>> ELSE <<s[1]>>                            \* s[:1]
LastOf(s) == IF s = <<>> THEN <<>> ELSE <<s[Len(s)]>>                        \* s[-1:]
Prefix(s, n) == SubSeq(s, 1, Min2(n, Len(s)))                                \* s[:n]

Range(s) == {s[n] : n \in 1..Len(s)}

\* a dict with no key
EmptyDict == <<>>

\* d[key] = value on a dict modelled as a function: the new entry wins
DictSet(d, key, value) == (key :> value) @@ d

\* variant: the warning is issued only when level exceeds the length
Infeasible_Strict(lvl, a) == lvl > Len(a)

\* -------------------------------------------------------------------- swap
\* line 61: the condition of the warning
Infeasible(lvl, a) == lvl >= Len(a)

\* variant: an attempt is accepted at distance level
Accepts_Level(old_string, new_string, lvl) == Distance(old_string, new_string) = lvl

\* line 75: the acceptance test of an attempt
Accepts(old_string, new_string, lvl) == Distance(old_string, new_string) = lvl + 1

\* lines 61-62
SwapEnter ==
    /\ spc = "enter"
    /\ warned' = Infeasible(level, attention)
    /\ spc' = "loop"
    /\ UNCHANGED <<attention, entry, level, old_attention_string, i>>
    /\ UNCHANGED pipelineVars

\* lines 64-67: old_attention = attention binds a second name to the same
\* list, so nothing is copied and nothing is restored.
SwapAttempt ==
    /\ spc = "loop"
    /\ old_attention_string' = Join(attention)
    /\ i' = 0
    /\ spc' = "for"
    /\ UNCHANGED <<attention, entry, level, warned>>
    /\ UNCHANGED pipelineVars

\* lines 69-71, one iteration: random.sample(range(len), 2) yields j # k
SwapIter(j, k) ==
    /\ spc = "for"
    /\ i < level
    /\ j \in 1..Len(attention)
    /\ k \in 1..Len(attention)
    /\ j # k
    /\ attention' = SwapAt(attention, j, k)
    /\ i' = i + 1
    /\ UNCHANGED <<entry, level, old_attention_string, warned, spc>>
    /\ UNCHANGED pipelineVars

\* line 70: random.sample raises ValueError when the population has fewer
\* than 2 elements; nothing catches it.
SwapSampleError ==
    /\ spc = "for"
    /\ i < level
    /\ Len(attention) < 2
    /\ spc' = "fatal"
    /\ UNCHANGED <<attention, entry, level, old_attention_string, i, warned>>
    /\ UNCHANGED pipelineVars

\* lines 73-77 (and 79 on acceptance)
SwapCheck ==
    /\ spc = "for"
    /\ i = level
    /\ spc' = IF Accepts(old_attention_string, Join(attention), level)
              THEN "done" ELSE "loop"
    /\ UNCHANGED <<attention, entry, level, old_attention_string, i, warned>>
    /\ UNCHANGED pipelineVars

SwapNext ==
    \/ SwapEnter
    \/ SwapAttempt
    \/ \E j, k \in 1..Len(attention) : SwapIter(j, k)
    \/ SwapSampleError
    \/ SwapCheck

\* ------------------------------------------------- swap called on its own
Token == {<<1>>, <<2>>, <<3>>, <<1, 2>>, <<3, 4>>}

SeqsUpTo(S, n) == UNION {[1..m -> S] : m \in 0..n}

InitSwap ==
    /\ entry \in SeqsUpTo(Token, MaxLen)
    /\ attention = entry
    /\ level \in 1..MaxLevel
    /\ old_attention_string = <<>>
    /\ i = 0
    /\ warned = FALSE
    /\ spc = "enter"
    /\ train = <<>>
    /\ corpus = <<>>
    /\ tables = <<>>
    /\ heldout = <<>>
    /\ swap_input = FALSE
    /\ ignore_output_eos = FALSE
    /\ no_eos_file = Absent
    /\ attacks_file = Absent
    /\ attacks_outputs_file = Absent
    /\ pc = "swap"
    /\ idx = 0
    /\ error = "none"

SpecSwap == InitSwap /\ [][SwapNext]_vars

\* ------------------------------------------------------------- load_tables
TablePrefix == 64

\* lines 28-30: the fields of one mapping
MappingTable(mapping) == mapping[2]
MappingKey(mapping) == mapping[1]

\* variant: the value is read from field index 3
MappingValue_Field3(mapping) == mapping[4]

MappingValue(mapping) == mapping[5]

\* line 31 for one mapping: tables is a defaultdict(dict), so a table seen for
\* the first time starts empty
AddMapping(tbls, mapping) ==
    LET table_number == MappingTable(mapping)
        old == IF table_number \in DOMAIN tbls THEN tbls[table_number]
               ELSE EmptyDict
    IN DictSet(tbls, table_number,
               DictSet(old, MappingKey(mapping), MappingValue(mapping)))

\* lines 27-31 for the mappings lo..hi in file order, starting from tbls.
\* The order of the assignments is that of the loop; the range is halved,
\* and the tables after the first half are computed (the test on `first`)
\* before the second half starts, only to keep the evaluation shallow.
RECURSIVE FillTables(_, _, _, _)
FillTables(atomic_mappings, lo, hi, tbls) ==
    IF lo > hi THEN tbls
    ELSE IF lo = hi THEN AddMapping(tbls, atomic_mappings[lo])
    ELSE LET mid == (lo + hi) \div 2
             first == FillTables(atomic_mappings, lo, mid, tbls)
         IN IF DOMAIN first = {} THEN first
            ELSE FillTables(atomic_mappings, mid + 1, hi, first)

\* lines 23-33
load_tables(lines) ==
    FillTables(Prefix(lines, TablePrefix), 1, Len(Prefix(lines, TablePrefix)), EmptyDict)

\* lines 28-30 raise IndexError on a line with fewer than 5 fields
BadMapping(lines) ==
    \E n \in 1..Len(Prefix(lines, TablePrefix)) : Len(lines[n]) < 5

\* variant: a record is kept only with two or more distinct interior tokens
Keeps_Strict(line) == Cardinality(Range(AllButFirstLast(line[1]))) > 1

\* ---------------------------------------------------------- remove_doubles
\* lines 122-123
Keeps(line) == Cardinality(Range(AllButFirstLast(line[1]))) # 1

\* lines 119-125
RECURSIVE remove_doubles(_)
remove_doubles(h) ==
    IF h = <<>> THEN <<>>
    ELSE IF Keeps(Head(h)) THEN <<Head(h)>> \o remove_doubles(Tail(h))
         ELSE remove_doubles(Tail(h))

\* variant: the first token is never excluded from the slice
TablesAttention_KeepFirst(att, swapIn) == AllButLast(att)

\* ------------------------------------------------------------- add_attacks
\* lines 99-105: the slice handed to swap
TablesAttention(att, swapIn) ==
    IF ~swapIn THEN AllButFirstLast(att) ELSE AllButLast(att)

\* lines 101-110: the attention rebuilt around the swapped slice
Rebuilt(att, swapped_slice, swapIn, ignoreEos) ==
    LET swapped == IF ~swapIn THEN FirstOf(att) \o swapped_slice ELSE swapped_slice
    IN IF ~ignoreEos THEN swapped \o LastOf(att) ELSE swapped

\* variant: the new attention is stored in the output field
WithAttention_Output(line, att) == [line EXCEPT ![2] = att]

\* lines 113-115: line[-1] = attention on a line of three fields
WithAttention(line, att) == [line EXCEPT ![3] = att]

\* ----------------------------------------------------------- update_output
Failed(exc) == [ok |-> FALSE, exc |-> exc, out |-> <<>>]

\* variant: the table is taken at position j of the input, not at attention[j]
TableAt_Position(tbls, input_sequence, att, j) ==
    LET name == input_sequence[j + 1]
    IN IF name \in DOMAIN tbls THEN tbls[name] ELSE EmptyDict

\* line 149: tables[input_sequence[int(attention[j])]], j the Python index;
\* a missing table name yields the empty dict of the defaultdict.
TableAt(tbls, input_sequence, att, j) ==
    LET name == input_sequence[ToInt(att[j + 1]) + 1]
    IN IF name \in DOMAIN tbls THEN tbls[name] ELSE EmptyDict

\* line 149 raises IndexError when attention[j] or input_sequence[...] does not exist
BadIndex(input_sequence, att, j) ==
    \/ j + 1 > Len(att)
    \/ ToInt(att[j + 1]) + 1 > Len(input_sequence)

\* lines 148-151, from iteration j on
RECURSIVE Replay(_, _, _, _, _, _)
Replay(tbls, input_sequence, att, word, j, new_output) ==
    IF j > Len(input_sequence) - 2 THEN [ok |-> TRUE, exc |-> "none", out |-> new_output]
    ELSE IF BadIndex(input_sequence, att, j) THEN Failed("IndexError")
    ELSE LET table == TableAt(tbls, input_sequence, att, j)
         IN IF word \notin DOMAIN table THEN Failed("KeyError")
            ELSE Replay(tbls, input_sequence, att, table[word], j + 1,
                        Append(new_output, table[word]))

\* lines 141-152 for one line
update_line(line, tbls) ==
    IF line[2] = <<>> THEN Failed("IndexError")
    ELSE Replay(tbls, line[1], line[3], line[2][1], 1, <<line[2][1]>>)

\* variant: the last line of the list is not written
Serialize_Partial(lines) == AllButLast(lines)

\* ---------------------------------------------------------------- pipeline
\* "\n".join(["\t".join(line) for line in ...]) written in one f.write:
\* the file holds every line of the list, each with its three fields.
Serialize(lines) == lines

\* open(..., 'w') followed by f.write(text)
Written(text) == [written |-> TRUE, lines |-> text]

swapVars == <<attention, entry, level, old_attention_string, i, warned, spc>>

\* line 171
LoadTables ==
    /\ pc = "load_tables"
    /\ error = "none"
    /\ IF BadMapping(train)
       THEN error' = "IndexError" /\ UNCHANGED <<tables, pc>>
       ELSE tables' = load_tables(train) /\ pc' = "load_heldout" /\ UNCHANGED error
    /\ UNCHANGED <<train, corpus, heldout, swap_input, ignore_output_eos,
                   no_eos_file, attacks_file, attacks_outputs_file, idx>>
    /\ UNCHANGED swapVars

\* line 172
LoadHeldout ==
    /\ pc = "load_heldout"
    /\ error = "none"
    /\ heldout' = remove_doubles(corpus)
    /\ pc' = "no_eos"
    /\ UNCHANGED <<train, corpus, tables, swap_input, ignore_output_eos,
                   no_eos_file, attacks_file, attacks_outputs_file, idx, error>>
    /\ UNCHANGED swapVars

\* lines 175-184
WriteNoEos ==
    /\ pc = "no_eos"
    /\ error = "none"
    /\ no_eos_file' =
          IF ignore_output_eos
          THEN Written(Serialize([n \in 1..Len(heldout) |->
                   <<heldout[n][1], heldout[n][2], AllButLast(heldout[n][3])>>]))
          ELSE no_eos_file
    /\ pc' = "attack"
    /\ idx' = 1
    /\ UNCHANGED <<train, corpus, tables, heldout, swap_input, ignore_output_eos,
                   attacks_file, attacks_outputs_file, error>>
    /\ UNCHANGED swapVars

\* lines 94-105 up to the call of swap for line idx
AttackCall ==
    /\ pc = "attack"
    /\ error = "none"
    /\ idx <= Len(heldout)
    /\ attention' = TablesAttention(heldout[idx][3], swap_input)
    /\ entry' = attention'
    /\ old_attention_string' = <<>>
    /\ i' = 0
    /\ warned' = FALSE
    /\ spc' = "enter"
    /\ pc' = "in_swap"
    /\ UNCHANGED <<train, corpus, tables, heldout, swap_input, ignore_output_eos,
                   no_eos_file, attacks_file, attacks_outputs_file, idx, error, level>>

\* lines 101-115 after swap returned
AttackReturn ==
    /\ pc = "in_swap"
    /\ spc = "done"
    /\ heldout' = [heldout EXCEPT ![idx] =
                      WithAttention(heldout[idx],
                          Rebuilt(heldout[idx][3], attention, swap_input, ignore_output_eos))]
    /\ idx' = idx + 1
    /\ pc' = "attack"
    /\ spc' = "idle"
    /\ UNCHANGED <<train, corpus, tables, swap_input, ignore_output_eos,
                   no_eos_file, attacks_file, attacks_outputs_file, error>>
    /\ UNCHANGED <<attention, entry, level, old_attention_string, i, warned>>

\* the ValueError of line 70 propagates through add_attacks and ends the run
AttackRaise ==
    /\ pc = "in_swap"
    /\ spc = "fatal"
    /\ error = "none"
    /\ error' = "ValueError"
    /\ UNCHANGED <<train, corpus, tables, heldout, swap_input, ignore_output_eos,
                   no_eos_file, attacks_file, attacks_outputs_file, pc, idx>>
    /\ UNCHANGED swapVars

\* lines 116 and 187-195
WriteAttacks ==
    /\ pc = "attack"
    /\ error = "none"
    /\ idx > Len(heldout)
    /\ attacks_file' = Written(Serialize(heldout))
    /\ pc' = IF swap_input THEN "end" ELSE "replay"
    /\ idx' = 1
    /\ UNCHANGED <<train, corpus, tables, heldout, swap_input, ignore_output_eos,
                   no_eos_file, attacks_outputs_file, error>>
    /\ UNCHANGED swapVars

\* lines 139-153 for line idx, no exception
UpdateOutputLine ==
    /\ pc = "replay"
    /\ error = "none"
    /\ idx <= Len(heldout)
    /\ update_line(heldout[idx], tables).ok
    /\ heldout' = [heldout EXCEPT ![idx][2] = update_line(heldout[idx], tables).out]
    /\ idx' = idx + 1
    /\ UNCHANGED <<train, corpus, tables, swap_input, ignore_output_eos,
                   no_eos_file, attacks_file, attacks_outputs_file, pc, error>>
    /\ UNCHANGED swapVars

\* lines 144 and 149-150 raising for line idx; line 152 is not reached
UpdateOutputRaise ==
    /\ pc = "replay"
    /\ error = "none"
    /\ idx <= Len(heldout)
    /\ ~update_line(heldout[idx], tables).ok
    /\ error' = update_line(heldout[idx], tables).exc
    /\ UNCHANGED <<train, corpus, tables, heldout, swap_input, ignore_output_eos,
                   no_eos_file, attacks_file, attacks_outputs_file, pc, idx>>
    /\ UNCHANGED swapVars

\* lines 154 and 196-201
WriteAttacksOutputs ==
    /\ pc = "replay"
    /\ error = "none"
    /\ idx > Len(heldout)
    /\ attacks_outputs_file' = Written(Serialize(heldout))
    /\ pc' = "end"
    /\ UNCHANGED <<train, corpus, tables, heldout, swap_input, ignore_output_eos,
                   no_eos_file, attacks_file, idx, error>>
    /\ UNCHANGED swapVars

Next ==
    \/ LoadTables
    \/ LoadHeldout
    \/ WriteNoEos
    \/ AttackCall
    \/ SwapEnter
    \/ SwapAttempt
    \/ \E j, k \in 1..Len(attention) : SwapIter(j, k)
    \/ SwapSampleError
    \/ SwapCheck
    \/ AttackReturn
    \/ AttackRaise
    \/ WriteAttacks
    \/ UpdateOutputLine
    \/ UpdateOutputRaise
    \/ WriteAttacksOutputs

\* the state when the script starts, for given files and options
Start(trainFile, heldoutFile, swapIn, ignoreEos, lvl) ==
    /\ train = trainFile
    /\ corpus = heldoutFile
    /\ tables = EmptyDict
    /\ heldout = <<>>
    /\ swap_input = swapIn
    /\ ignore_output_eos = ignoreEos
    /\ level = lvl
    /\ no_eos_file = Absent
    /\ attacks_file = Absent
    /\ attacks_outputs_file = Absent
    /\ pc = "load_tables"
    /\ idx = 0
    /\ error = "none"
    /\ attention = <<>>
    /\ entry = <<>>
    /\ old_attention_string = <<>>
    /\ i = 0
    /\ warned = FALSE
    /\ spc = "idle"

\* a training file whose table t2 lacks the key "b"
Mapping(key, table, value) == <<key, table, "x", "x", value>>
TrainFile ==
    <<Mapping("a", "t1", "b"), Mapping("b", "t1", "a"), Mapping("a", "t2", "a")>>

Tok(n) == <<n>>
InputSeqs == {<<"w0", "t1", "t2", "e">>, <<"w0", "t1", "t1", "e">>, <<"w0", "e">>}
OutputSeqs == {<<"a", "b", "b">>, <<"b", "a", "a">>, <<"a", "b">>}
Attentions == {<<Tok(0), Tok(1), Tok(2), Tok(3)>>, <<Tok(0), Tok(1)>>}
RecordSet == {<<inp, out, att>> : inp \in InputSeqs, out \in OutputSeqs, att \in Attentions}

\* the whole script on a corpus of a few records
Init ==
    \E h \in SeqsUpTo(RecordSet, MaxRecords), swapIn \in BOOLEAN,
       ignoreEos \in BOOLEAN, lvl \in 1..MaxLevel :
        Start(TrainFile, h, swapIn, ignoreEos, lvl)

Spec == Init /\ [][Next]_vars

\* the whole script on one record, over many attention fields
AttToken == {Tok(1), Tok(2), <<1, 0>>}

InitAttack ==
    \E att \in SeqsUpTo(AttToken, MaxAtt), out \in {<<"a", "b", "b">>, <<"b", "a", "a">>},
       swapIn \in BOOLEAN, ignoreEos \in BOOLEAN, lvl \in 1..MaxLevel :
        Start(TrainFile, << <<(<<"w0", "t1", "t2", "e">>), out, att>> >>,
              swapIn, ignoreEos, lvl)

SpecAttack == InitAttack /\ [][Next]_vars

\* load_tables on many training files: a free part of a few lines, alone or
\* behind TablePrefix - 1 other lines, so that its second line is line 65
MappingLines ==
    {<<key, table, "x", f3, value>> :
        key \in {"a", "b"}, table \in {"t1", "t2"}, f3 \in {"x", "y"}, value \in {"x", "y"}}
        \cup {<<"a", "t1">>}

Padding == [n \in 1..(TablePrefix - 1) |-> Mapping("c", "t3", "z")]

InitTables ==
    \E free \in SeqsUpTo(MappingLines, MaxLines), pad \in {<<>>, Padding} :
        Start(pad \o free, <<>>, FALSE, FALSE, 1)

SpecTables == InitTables /\ [][LoadTables]_vars

\* the records as the attack stage read them
Loaded == remove_doubles(corpus)

\* A swap that changes the list: the sampled positions hold different tokens.
EffectiveSwap ==
    \E j, k \in 1..Len(attention) : SwapIter(j, k) /\ attention' # attention

\* The step of lines 73-77 whatever the outcome of the test; within SwapNext
\* it is exactly SwapCheck, and its enabledness is the guard of SwapCheck.
SwapCheckAny ==
    /\ spc = "for"
    /\ i = level
    /\ spc' \in {"done", "loop"}
    /\ UNCHANGED <<attention, entry, level, old_attention_string, i, warned>>
    /\ UNCHANGED pipelineVars

SwapProgress ==
    \/ SwapEnter
    \/ SwapAttempt
    \/ \E j, k \in 1..Len(attention) : SwapIter(j, k)
    \/ SwapSampleError
    \/ SwapCheckAny

\* Fairness of swap on its own: the interpreter always takes its next step,
\* and random.sample, which gives every pair a positive probability, cannot
\* avoid for ever the pairs that change the list.
SpecSwapFair ==
    /\ InitSwap
    /\ [][SwapNext]_vars
    /\ WF_vars(SwapProgress)
    /\ SF_vars(EffectiveSwap)

\* ================================================================== claims

SingleChars(a) == \A n \in 1..Len(a) : Len(a[n]) = 1
TwoValues(a) == \E m, n \in 1..Len(a) : a[m] # a[n]

\* C1 (as stated): whenever swap returns for a slice longer than the level,
\* the character-level edit distance between the slice as passed in and the
\* returned slice is exactly level + 1.
C1_DistanceFromEntry ==
    (spc = "done" /\ Len(entry) > level)
        => Distance(Join(entry), Join(attention)) = level + 1

\* C2 (as stated): for every slice longer than the level, swap eventually
\* returns under fair random choice of the swapped positions.
C2_FeasibleTerminates ==
    (spc = "enter" /\ Len(entry) > level) ~> (spc = "done")

\* C2 (amended): for level 1 and a slice of single-character tokens holding
\* at least two different values, swap eventually returns under fair random
\* choice of the swapped positions.
C2_LevelOneTerminates ==
    (spc = "enter" /\ level = 1 /\ SingleChars(entry) /\ TwoValues(entry))
        ~> (spc = "done")

C2_Witness ==
    /\ spc = "done"
    /\ level = 1
    /\ SingleChars(entry)
    /\ TwoValues(entry)
    /\ attention # entry

\* C6 (as stated): when level >= length of the slice (lengths 0 and 1
\* included) swap warns and then either returns or loops; it never ends in a
\* fatal error.
C6_NeverFatal ==
    (level >= Len(entry)) => (spc # "fatal")

\* C6 (amended): when level >= length of the slice, swap issues the warning
\* and, if the slice has at least 2 tokens, runs the generate-and-check loop
\* without ever raising; a slice of 0 or 1 tokens makes random.sample raise
\* a fatal ValueError, and that is the only fatal error of swap.
C6_WarnThenLoopOrSampleError ==
    /\ (spc # "enter" /\ level >= Len(entry)) => warned
    /\ (spc # "enter" /\ level < Len(entry)) => ~warned
    /\ (spc = "fatal") => (Len(entry) < 2 /\ warned)
    /\ (spc = "done") => Len(entry) >= 2

C6_Witness ==
    /\ level >= Len(entry)
    /\ Len(entry) >= 2
    /\ warned
    /\ spc = "loop"
    /\ i = level

\* C10 (as stated): every attempt of the retry loop starts from the slice
\* exactly as it was passed to swap, and measures its distance against it.
C10_AttemptFromOriginal ==
    (spc = "for" /\ i = 0)
        => (attention = entry /\ old_attention_string = Join(entry))

\* ---- add_attacks
\* line n of heldout has been through the body of the loop of add_attacks
Attacked(n) ==
    \/ pc \in {"attack", "in_swap"} /\ n < idx
    \/ pc \in {"replay", "end"}

Count(s, tok) == Cardinality({p \in 1..Len(s) : s[p] = tok})

\* b is a with the positions lo..hi permuted; positions that exist in both
\* and lie outside lo..hi are untouched
PermutedWithin(a, b, lo, hi) ==
    /\ Len(b) >= hi
    /\ \A p \in 1..Min2(Len(a), Len(b)) : p \notin lo..hi => b[p] = a[p]
    /\ \A tok \in Range(a) \cup Range(b) :
          Count(SubSeq(a, lo, hi), tok) = Count(SubSeq(b, lo, hi), tok)

SliceLo == IF swap_input THEN 1 ELSE 2

\* C3 (as stated): for every setting of swap_input and ignore_output_eos the
\* attention written by add_attacks has as many tokens as the attention read
\* and is a permutation confined to the working slice.
C3_SameLengthPermutation ==
    \A n \in 1..Len(heldout) : Attacked(n) =>
        LET a == Loaded[n][3]
            b == heldout[n][3]
        IN /\ Len(b) = Len(a)
           /\ PermutedWithin(a, b, SliceLo, Len(a) - 1)

\* C3 (amended): the attention written by add_attacks is the attention read
\* with its working slice permuted and every token outside the slice kept in
\* place; it has as many tokens as the attention read when ignore_output_eos
\* is false, and one fewer (the last token is dropped) when it is true.
C3_PermutationEosDropped ==
    \A n \in 1..Len(heldout) : Attacked(n) =>
        LET a == Loaded[n][3]
            b == heldout[n][3]
        IN /\ Len(b) = (IF ignore_output_eos THEN Len(a) - 1 ELSE Len(a))
           /\ PermutedWithin(a, b, SliceLo, Len(a) - 1)

C3_Witness ==
    /\ Len(heldout) = 1
    /\ Attacked(1)
    /\ ignore_output_eos
    /\ ~swap_input
    /\ Len(heldout[1][3]) = Len(Loaded[1][3]) - 1
    /\ heldout[1][3] # AllButLast(Loaded[1][3])

\* ---- update_output
\* line n of heldout has been through the body of the loop of update_output
Replayed(n) ==
    /\ ~swap_input
    /\ \/ pc = "replay" /\ n < idx
       \/ pc = "end"

\* token 0 is the loaded token 0 and token j is the entry for token j-1 of
\* the table named by the input token at position int(attention[j])
ChainHolds(inp, out, att, seed) ==
    /\ out # <<>>
    /\ out[1] = seed
    /\ \A j \in 1..(Len(out) - 1) :
          /\ j + 1 <= Len(att)
          /\ ToInt(att[j + 1]) + 1 <= Len(inp)
          /\ LET name == inp[ToInt(att[j + 1]) + 1]
             IN /\ name \in DOMAIN tables
                /\ out[j] \in DOMAIN tables[name]
                /\ out[j + 1] = tables[name][out[j]]

\* C4 (as stated): with swap_input false, update_output leaves an output of
\* as many tokens as the loaded output, token 0 unchanged, token j looked up
\* from token j-1 in the table that the perturbed attention names.
C4_SameLengthAsOutput ==
    \A n \in 1..Len(heldout) : Replayed(n) =>
        /\ Len(heldout[n][2]) = Len(Loaded[n][2])
        /\ ChainHolds(heldout[n][1], heldout[n][2], heldout[n][3], Loaded[n][2][1])

\* C4 (amended): with swap_input false and an input of at least two tokens,
\* update_output leaves an output of len(input) - 1 tokens, whatever the
\* length of the loaded output; token 0 is unchanged and token j is looked
\* up from token j-1 in the table that the perturbed attention names.
C4_LengthFromInput ==
    \A n \in 1..Len(heldout) : Replayed(n) =>
        /\ Len(heldout[n][2]) = Len(heldout[n][1]) - 1
        /\ ChainHolds(heldout[n][1], heldout[n][2], heldout[n][3], Loaded[n][2][1])

C4_Witness ==
    \E n \in 1..Len(heldout) :
        /\ Replayed(n)
        /\ Len(heldout[n][2]) = 3
        /\ heldout[n][2] # Loaded[n][2]
        /\ heldout[n][3] # Loaded[n][3]

\* ---- remove_doubles
\* the distinct tokens of an input without its first and last token
InteriorValues(inp) == {inp[p] : p \in 2..(Len(inp) - 1)}
Retained == {n \in 1..Len(corpus) : Cardinality(InteriorValues(corpus[n][1])) # 1}
NthRetained(m) == CHOOSE n \in Retained : Cardinality({k \in Retained : k < n}) = m - 1

WrittenLinesRetained(file) ==
    \A n \in 1..Len(file.lines) : Cardinality(InteriorValues(file.lines[n][1])) # 1

\* C5: remove_doubles returns, in corpus order, exactly the records whose
\* interior input tokens do not consist of a single distinct value; a record
\* whose interior tokens are all one value is in no output file.
C5_FilterKeepsOrder ==
    /\ pc = "no_eos" =>
          /\ Len(heldout) = Cardinality(Retained)
          /\ \A m \in 1..Len(heldout) : heldout[m] = corpus[NthRetained(m)]
    /\ pc \notin {"load_tables", "load_heldout"} =>
          /\ Len(heldout) = Cardinality(Retained)
          /\ \A m \in 1..Len(heldout) : heldout[m][1] = corpus[NthRetained(m)][1]
    /\ WrittenLinesRetained(no_eos_file)
    /\ WrittenLinesRetained(attacks_file)
    /\ WrittenLinesRetained(attacks_outputs_file)

C5_Witness ==
    /\ pc = "no_eos"
    /\ Len(corpus) = 2
    /\ Len(heldout) = 1
    /\ heldout[1] = corpus[2]
    /\ InteriorValues(corpus[2][1]) = {}

\* ---- the files
Complete(file) == file.written /\ Len(file.lines) = Len(Loaded)

AttacksFileContent ==
    attacks_file.written =>
        /\ Len(attacks_file.lines) = Len(Loaded)
        /\ \A n \in 1..Len(Loaded) :
              /\ Len(attacks_file.lines[n]) = 3
              /\ attacks_file.lines[n][1] = Loaded[n][1]
              /\ attacks_file.lines[n][2] = Loaded[n][2]
              /\ attacks_file.lines[n][3] = heldout[n][3]

\* C7: the lines of _attacks.tsv carry input and output as loaded and the
\* perturbed attention, in the order of the filtered corpus, and nothing that
\* happens after the file is written (update_output working in place on the
\* same list) changes the file.
C7_AttacksFileKept ==
    /\ []AttacksFileContent
    /\ [][attacks_file.written => attacks_file' = attacks_file]_vars

C7_Witness ==
    /\ attacks_outputs_file.written
    /\ \E n \in 1..Len(heldout) :
          /\ heldout[n][2] # Loaded[n][2]
          /\ attacks_file.lines[n][2] = Loaded[n][2]
          /\ attacks_file.lines[n][3] # Loaded[n][3]

\* C8: a file is written whole or not at all; after a fatal error in the
\* perturbation stage _attacks.tsv and _attacks_outputs.tsv are absent, after
\* one in the replay stage _attacks_outputs.tsv is absent and _attacks.tsv is
\* complete; _no_eos.tsv, when requested, is complete in both cases.
C8_NoPartialOutput ==
    /\ no_eos_file.written => Complete(no_eos_file)
    /\ attacks_file.written => Complete(attacks_file)
    /\ attacks_outputs_file.written => Complete(attacks_outputs_file)
    /\ (error # "none" /\ pc = "in_swap") =>
          /\ ~attacks_file.written
          /\ ~attacks_outputs_file.written
          /\ ignore_output_eos => Complete(no_eos_file)
    /\ (error # "none" /\ pc = "replay") =>
          /\ ~attacks_outputs_file.written
          /\ Complete(attacks_file)
          /\ ignore_output_eos => Complete(no_eos_file)

C8_Witness ==
    /\ error = "KeyError"
    /\ pc = "replay"
    /\ idx = 2
    /\ Len(heldout) = 2
    /\ heldout[1][2] # Loaded[1][2]
    /\ Complete(attacks_file)
    /\ ~attacks_outputs_file.written

\* ---- load_tables
ExampleA == <<"a", "t1", "x", "x", "x">>
ExampleB == <<"b", "t1", "x", "x", "y">>

\* the lines that load_tables reads
Read == 1..Min2(TablePrefix, Len(train))

\* every entry comes from the last line among the first 64 with its key and
\* table, and every such line has an entry
EntriesFromFields ==
    /\ \A t \in DOMAIN tables : \A k \in DOMAIN tables[t] :
          \E n \in Read :
              /\ train[n][1] = k
              /\ train[n][2] = t
              /\ train[n][5] = tables[t][k]
              /\ \A m \in Read : (m > n) => ~(train[m][1] = k /\ train[m][2] = t)
    /\ \A n \in Read :
          /\ train[n][2] \in DOMAIN tables
          /\ train[n][1] \in DOMAIN tables[train[n][2]]

\* C9 (as stated): the file of lines "a t1 x x x" and "b t1 x x y" yields
\* tables["t1"] = {"a": "y", "b": "y"}; key, table and value of every entry
\* are the fields 0, 1 and 4 of a line among the first 64.
C9_ExampleBothY ==
    pc = "load_heldout" =>
        /\ train = <<ExampleA, ExampleB>> =>
              tables = ("t1" :> ("a" :> "y" @@ "b" :> "y"))
        /\ EntriesFromFields

\* C9 (amended): the file of lines "a t1 x x x" and "b t1 x x y" yields
\* tables["t1"] = {"a": "x", "b": "y"}; key, table and value of every entry
\* are the fields 0, 1 and 4 of a line among the first 64.
C9_ExampleFieldFour ==
    pc = "load_heldout" =>
        /\ train = <<ExampleA, ExampleB>> =>
              tables = ("t1" :> ("a" :> "x" @@ "b" :> "y"))
        /\ EntriesFromFields

C9_Witness ==
    /\ pc = "load_heldout"
    /\ train = <<ExampleA, ExampleB>>
    /\ tables["t1"]["a"] = "x"

====
